---------------------------- MODULE Spec2Model ----------------------------
(***************************************************************************)
(* Model of the Maestro MCP server: src/src/maestro-client.ts and the      *)
(* swipe and run_flow tool handlers of src/src/index.ts.                   *)
(*                                                                         *)
(* Four specifications share this module.  Spec is the orchestrator: calls *)
(* of executeSteps / executeStepsMultiDevice suspended at their awaits,    *)
(* the scratch directories on disk and the engine processes in flight.     *)
(* SpecRunner is one exec and one execStream promise driven by the events  *)
(* of their child process.  SpecYaml is one call of the flow document      *)
(* builder (buildYaml, formatStep, escapeYaml).  SpecClient is one caller  *)
(* of listDevices, runFlow, takeScreenshot or a tool handler.              *)
(***************************************************************************)
EXTENDS Integers, Sequences, FiniteSets, TLC

(***************************************************************************)
(* Bounds of the model.                                                    *)
(***************************************************************************)
MaxCalls == 2
MaxDevices == 2
MaxLoad == 4
MaxExitCode == 1
MaxChunks == 1

(***************************************************************************)
(* Values.                                                                 *)
(***************************************************************************)
\* An optional value (null / undefined or a value) is a sequence of length
\* at most one.
Null == <<>>
Some(v) == <<v>>

\* Text is a sequence of tokens; NL is the "\n" of line 55.
NL == "\n"

DeviceIds == {"dev-A", "dev-B", "__proto__"}
NoDevice == "undefined"
ProtoKey == "__proto__"

ExecResult(out, err, code) == [stdout |-> out, stderr |-> err, exitCode |-> code]
NoResult == [stdout |-> <<>>, stderr |-> <<>>, exitCode |-> -1]

\* Exit codes a process can exit with by itself.
ExitCodes == 0..MaxExitCode
\* The code argument of the close event: a number, or null when the child
\* was terminated by a signal.
CloseCodes == {Some(c) : c \in ExitCodes} \cup {Null}
ErrorMessages == {"spawn maestro ENOENT"}

(***************************************************************************)
(* execStream's two settling handlers (lines 51-56).                       *)
(***************************************************************************)
\* code ?? 1
Coalesce(code, dflt) == IF code = Null THEN dflt ELSE code[1]

\* child.on("close", code => resolve({stdout, stderr, exitCode: code ?? 1}))
StreamCloseResult(out, err, code) == ExecResult(out, err, Coalesce(code, 1))

StreamErrorResultNoMessage(out, err, msg) == ExecResult(out, err, 1)
\* child.on("error", err => resolve({stdout, stderr: stderr+"\n"+err.message, exitCode: 1}))
StreamErrorResult(out, err, msg) == ExecResult(out, err \o <<NL, msg>>, 1)

(***************************************************************************)
(* Orchestrator state.                                                     *)
(***************************************************************************)
VARIABLES
    pc,        \* position of each call: idle, mkdtemp, write, try, await,
               \* finally, returned, thrown
    kind,      \* "executeSteps" or "executeStepsMultiDevice"
    ids,       \* the device ids of the call, in input order
    dir,       \* the scratch directory the call created (Null before)
    dirs,      \* the scratch directories that exist on disk
    flowFiles, \* the directories that hold a flow.yaml
    nextDir,   \* names mkdtemp has handed out so far
    inv,       \* per call and position in ids: the runFlow promise
    threw,     \* the try block of the call was left by an exception
    result,    \* executeSteps: the ExecResult returned
    results,   \* executeStepsMultiDevice: the mapping returned
    rmCount,   \* number of rm calls the call has made on its directory
    rmFailed   \* the rm of the call rejected (and was swallowed)

orchVars == <<pc, kind, ids, dir, dirs, flowFiles, nextDir, inv, threw,
              result, results, rmCount, rmFailed>>

Calls == 1..MaxCalls

Range(s) == {s[i] : i \in DOMAIN s}

\* Sequences over S of length 0..n.
SeqUpTo(S, n) == UNION {[1..k -> S] : k \in 0..n}

\* A runFlow promise of a call: its status, the ExecResult it resolved with
\* and the number of engine processes launched for it so far.
Idle == [status |-> "idle", result |-> NoResult, launches |-> 0]

Slots(c) == DOMAIN ids[c]
Launched(c) == {i \in Slots(c) : inv[c][i].status # "idle"}
InFlight(c) == {i \in Slots(c) : inv[c][i].status = "running"}
Rejected(c) == {i \in Slots(c) : inv[c][i].status = "rejected"}
Resolved(c) == {i \in Slots(c) : inv[c][i].status = "resolved"}
Settled(c) == Resolved(c) \cup Rejected(c)
Completed(c) == pc[c] \in {"returned", "thrown"}

\* What a started call takes from the budget MaxLoad: one unit for the call
\* and its scratch directory and one per engine process it launches, a call
\* on no device counting as a call on one.
Cost(deviceIds) == 1 + (IF Len(deviceIds) = 0 THEN 1 ELSE Len(deviceIds))

RECURSIVE SumCost(_)
SumCost(S) ==
    IF S = {} THEN 0
    ELSE LET c == CHOOSE x \in S : TRUE IN
         (IF pc[c] = "idle" THEN 0 ELSE Cost(ids[c])) + SumCost(S \ {c})

TotalCost == SumCost(Calls)

\* The ordinary ids dev-A and dev-B are interchangeable: a list names dev-B
\* only after it has named dev-A.
Canonical(deviceIds) ==
    \A i \in DOMAIN deviceIds :
        deviceIds[i] = "dev-B" => \E j \in 1..(i - 1) : deviceIds[j] = "dev-A"

\* Call slots are interchangeable: they are taken in order.
NextSlot(c) == \A b \in Calls : b < c => pc[b] # "idle"

InitOrch ==
    /\ pc = [c \in Calls |-> "idle"]
    /\ kind = [c \in Calls |-> "none"]
    /\ ids = [c \in Calls |-> <<>>]
    /\ dir = [c \in Calls |-> Null]
    /\ dirs = {}
    /\ flowFiles = {}
    /\ nextDir = 0
    /\ inv = [c \in Calls |-> <<>>]
    /\ threw = [c \in Calls |-> FALSE]
    /\ result = [c \in Calls |-> NoResult]
    /\ results = [c \in Calls |-> <<>>]
    /\ rmCount = [c \in Calls |-> 0]
    /\ rmFailed = [c \in Calls |-> FALSE]

(***************************************************************************)
(* runFlow (lines 196-207) as seen by the orchestrator: execStream builds  *)
(* its promise and calls spawn synchronously (lines 39-43).  spawn either  *)
(* hands back a child, and the promise stays pending until the child's     *)
(* first close or error event, or throws inside the promise executor, and  *)
(* the promise is rejected at once.                                        *)
(***************************************************************************)
SpawnOutcomes == {"running", "rejected"}

\* The first close or error event of a child settles its promise
\* (lines 51-56); the orchestrator model keeps no output chunks.
FirstEvents ==
    [type : {"close"}, code : {Some(0), Some(1), Null}, msg : {""}]
        \cup [type : {"error"}, code : {Null}, msg : ErrorMessages]

EventResult(ev) ==
    IF ev.type = "close"
    THEN StreamCloseResult(<<>>, <<>>, ev.code)
    ELSE StreamErrorResult(<<>>, <<>>, ev.msg)

NextToLaunchSequential(c) ==
    LET todo == Slots(c) \ Launched(c) IN
    IF todo = {} \/ InFlight(c) # {}
    THEN {}
    ELSE {CHOOSE i \in todo : \A j \in todo : i <= j}
\* deviceIds.map(async id => ... await this.runFlow(...)) (lines 243-246):
\* map calls every callback in turn, and each callback runs synchronously up
\* to its await, that is through the spawn of its child.  For executeSteps
\* the one runFlow call of line 222.
NextToLaunch(c) == Slots(c) \ Launched(c)

\* Promise.all(...) of line 242 / the await of line 222 can continue: the
\* promise has rejected (one rejection is enough for Promise.all) or every
\* promise has resolved.
AwaitEnabled(c) == Rejected(c) # {} \/ Resolved(c) = Slots(c)

\* A continuation of the call is ready to run without waiting for I/O.  The
\* runtime runs ready continuations before it delivers the next I/O event.
Ready(c) ==
    \/ pc[c] = "try" /\ (NextToLaunch(c) # {} \/ Slots(c) = {})
    \/ pc[c] = "await" /\ AwaitEnabled(c)

Quiescent == \A c \in Calls : ~Ready(c)

(***************************************************************************)
(* executeSteps (lines 210-227) and executeStepsMultiDevice (230-256).     *)
(***************************************************************************)
\* A call starts: buildYaml runs synchronously and mkdtemp is issued
\* (lines 216-217, 236-237).
ExecuteSteps(c, deviceId) ==
    /\ pc[c] = "idle"
    /\ Quiescent
    /\ NextSlot(c)
    /\ TotalCost + Cost(<<deviceId>>) <= MaxLoad
    /\ pc' = [pc EXCEPT ![c] = "mkdtemp"]
    /\ kind' = [kind EXCEPT ![c] = "executeSteps"]
    /\ ids' = [ids EXCEPT ![c] = <<deviceId>>]
    /\ inv' = [inv EXCEPT ![c] = <<Idle>>]
    /\ UNCHANGED <<dir, dirs, flowFiles, nextDir, threw, result, results,
                   rmCount, rmFailed>>

ExecuteStepsMultiDevice(c, deviceIds) ==
    /\ pc[c] = "idle"
    /\ Quiescent
    /\ NextSlot(c)
    /\ Canonical(deviceIds)
    /\ TotalCost + Cost(deviceIds) <= MaxLoad
    /\ pc' = [pc EXCEPT ![c] = "mkdtemp"]
    /\ kind' = [kind EXCEPT ![c] = "executeStepsMultiDevice"]
    /\ ids' = [ids EXCEPT ![c] = deviceIds]
    /\ inv' = [inv EXCEPT ![c] = [i \in DOMAIN deviceIds |-> Idle]]
    /\ UNCHANGED <<dir, dirs, flowFiles, nextDir, threw, result, results,
                   rmCount, rmFailed>>

MkdtempNameFixed(n) == 1
\* mkdtemp(join(tmpdir(), "maestro-mcp-")) settles: a directory with a name
\* no earlier call got, or a rejection that leaves the call (lines 217, 237).
MkdtempName(n) == n + 1

MkdtempDone(c, ok) ==
    /\ pc[c] = "mkdtemp"
    /\ Quiescent
    /\ IF ok
       THEN /\ dir' = [dir EXCEPT ![c] = Some(MkdtempName(nextDir))]
            /\ dirs' = dirs \cup {MkdtempName(nextDir)}
            /\ nextDir' = nextDir + 1
            /\ pc' = [pc EXCEPT ![c] = "write"]
       ELSE /\ pc' = [pc EXCEPT ![c] = "thrown"]
            /\ UNCHANGED <<dir, dirs, nextDir>>
    /\ threw' = [threw EXCEPT ![c] = ~ok]
    /\ UNCHANGED <<kind, ids, flowFiles, inv, result, results, rmCount,
                   rmFailed>>

\* Where the call goes when writeFile rejects: lines 219 and 239 are before
\* the try, so the rejection leaves the call without passing the finally.
AfterWriteFailure == "thrown"

\* writeFile(flowPath, yaml) settles (lines 219, 239).
WriteFileDone(c, ok) ==
    /\ pc[c] = "write"
    /\ Quiescent
    /\ IF ok
       THEN /\ flowFiles' = flowFiles \cup {dir[c][1]}
            /\ pc' = [pc EXCEPT ![c] = "try"]
            /\ threw' = threw
       ELSE /\ pc' = [pc EXCEPT ![c] = AfterWriteFailure]
            /\ threw' = [threw EXCEPT ![c] = TRUE]
            /\ UNCHANGED flowFiles
    /\ UNCHANGED <<kind, ids, dir, dirs, nextDir, inv, result, results,
                   rmCount, rmFailed>>

RunFlowSpawnsWithRetry(n) == n + 2
\* One call of runFlow makes one call of execStream (line 206), which makes
\* one call of spawn (line 43): n launches so far become n + 1.
RunFlowSpawns(n) == n + 1

\* Entering the try block: the runFlow calls of lines 222 and 243-246.
RunFlows(c) ==
    /\ pc[c] = "try"
    /\ NextToLaunch(c) # {} \/ Slots(c) = {}
    /\ \E how \in [NextToLaunch(c) -> SpawnOutcomes] :
          inv' = [inv EXCEPT ![c] =
                    [i \in Slots(c) |->
                        IF i \in NextToLaunch(c)
                        THEN [status |-> how[i], result |-> NoResult,
                              launches |-> RunFlowSpawns(inv[c][i].launches)]
                        ELSE inv[c][i]]]
    /\ pc' = [pc EXCEPT ![c] =
                IF \A i \in Slots(c) : inv'[c][i].status # "idle"
                THEN "await" ELSE "try"]
    /\ UNCHANGED <<kind, ids, dir, dirs, flowFiles, nextDir, threw, result,
                   results, rmCount, rmFailed>>

\* The child of invocation i of call c delivers its first close or error
\* event; the handlers of lines 51-56 resolve the promise.  The child is
\* independent of the call: it runs on whatever the call does meanwhile.
ChildSettle(c, i, ev) ==
    /\ i \in InFlight(c)
    /\ Quiescent
    /\ inv' = [inv EXCEPT ![c][i] =
                 [status |-> "resolved", result |-> EventResult(ev),
                  launches |-> inv[c][i].launches]]
    /\ UNCHANGED <<pc, kind, ids, dir, dirs, flowFiles, nextDir, threw,
                   result, results, rmCount, rmFailed>>

\* results[id] = result on the plain object {} of line 248: an ordinary key
\* becomes (or overwrites) an own entry; the key "__proto__" invokes the
\* prototype setter and creates no entry.
AssignEntry(obj, id, r) ==
    IF id = ProtoKey
    THEN obj
    ELSE [k \in DOMAIN obj \cup {id} |-> IF k = id THEN r ELSE obj[k]]

RECURSIVE BuildResultsFrom(_, _)
BuildResultsFrom(obj, entries) ==
    IF entries = <<>>
    THEN obj
    ELSE BuildResultsFrom(AssignEntry(obj, Head(entries)[1], Head(entries)[2]),
                          Tail(entries))

\* const results = {}; for (const [id, result] of entries) results[id] = result
\* (lines 248-251).
BuildResults(entries) == BuildResultsFrom(<<>>, entries)

\* The entries Promise.all resolves with: one [id, result] pair per device
\* id, in input order (lines 242-247).
Entries(c) == [i \in Slots(c) |-> <<ids[c][i], inv[c][i].result>>]

AfterTryNoFinally(t) == IF t THEN "thrown" ELSE "finally"
\* try { ... } finally { ... } (lines 221-226, 241-255): the finally block
\* is entered whether the try block returned or threw.
AfterTry(t) == "finally"

\* The await of line 222 / line 242 continues.
AwaitDone(c) ==
    /\ pc[c] = "await"
    /\ AwaitEnabled(c)
    /\ threw' = [threw EXCEPT ![c] = Rejected(c) # {}]
    /\ pc' = [pc EXCEPT ![c] = AfterTry(Rejected(c) # {})]
    /\ IF Rejected(c) # {}
       THEN UNCHANGED <<result, results>>
       ELSE IF kind[c] = "executeSteps"
            THEN /\ result' = [result EXCEPT ![c] = inv[c][1].result]
                 /\ UNCHANGED results
            ELSE /\ results' = [results EXCEPT ![c] = BuildResults(Entries(c))]
                 /\ UNCHANGED result
    /\ UNCHANGED <<kind, ids, dir, dirs, flowFiles, nextDir, inv, rmCount,
                   rmFailed>>

AfterRmNoCatch(t, ok) == IF t \/ ~ok THEN "thrown" ELSE "returned"
\* How the call leaves the finally block (lines 224-226, 253-255): .catch
\* has swallowed a rejection of rm, so the call rethrows what the try block
\* threw, or returns what it returned, whether or not rm succeeded.
AfterRm(t, ok) == IF t THEN "thrown" ELSE "returned"

\* await rm(dir, {recursive: true, force: true}).catch(() => {}) settles
\* (lines 225, 254): the directory and its content are gone, or rm rejected
\* and the rejection is swallowed.  The call then returns or rethrows.
RmDone(c, ok) ==
    /\ pc[c] = "finally"
    /\ Quiescent
    /\ rmCount' = [rmCount EXCEPT ![c] = @ + 1]
    /\ rmFailed' = [rmFailed EXCEPT ![c] = ~ok]
    /\ dirs' = IF ok THEN dirs \ {dir[c][1]} ELSE dirs
    /\ flowFiles' = IF ok THEN flowFiles \ {dir[c][1]} ELSE flowFiles
    /\ pc' = [pc EXCEPT ![c] = AfterRm(threw[c], ok)]
    /\ UNCHANGED <<kind, ids, dir, nextDir, inv, threw, result, results>>

(***************************************************************************)
(* The process runner: exec (lines 17-31) and execStream (lines 34-58),    *)
(* one promise of each, driven by the events of its child process.         *)
(***************************************************************************)
VARIABLES
    eStatus,    \* exec's promise: idle, pending, resolved, rejected
    eTimedOut,  \* execFile's timeout expired and the child was signalled
    eFate,      \* how the child of exec ended (Null while it has not)
    eResult,    \* the ExecResult exec resolved with
    sStatus,    \* execStream's promise: idle, pending, resolved, rejected
    sStdout,    \* the stdout variable of line 40
    sStderr,    \* the stderr variable of line 41
    sTimedOut,  \* spawn's timeout expired and the child was signalled
    sClose,     \* the code of the close event delivered (Null: none yet)
    sClosed,    \* a close event has been delivered
    sError,     \* the error event delivered: its message, and the stdout
                \* and stderr accumulated when it arrived
    sFirst,     \* which of close / error was delivered first
    sResult     \* the ExecResult execStream resolved with

runVars == <<eStatus, eTimedOut, eFate, eResult, sStatus, sStdout, sStderr,
             sTimedOut, sClose, sClosed, sError, sFirst, sResult>>


StdoutChunks == {"out"}
StderrChunks == {"err"}

InitRun ==
    /\ eStatus = "idle"
    /\ eTimedOut = FALSE
    /\ eFate = Null
    /\ eResult = NoResult
    /\ sStatus = "idle"
    /\ sStdout = <<>>
    /\ sStderr = <<>>
    /\ sTimedOut = FALSE
    /\ sClose = Null
    /\ sClosed = FALSE
    /\ sError = Null
    /\ sFirst = "none"
    /\ sResult = NoResult

\* How a child process can end: it exits by itself with a code (also after
\* it was sent the timeout signal, if it handles the signal), it is
\* terminated by a signal, it could not be spawned (ENOENT and the like), or
\* its output passed maxBuffer and it was killed.
Fates ==
    [how : {"exit"}, code : ExitCodes]
        \cup [how : {"signal", "spawn-error", "maxbuffer"}, code : {0}]

\* The error argument execFile hands to the callback of line 23: none when
\* the child exited with code 0, else an Error whose code property is the
\* exit code (a number), null (killed by a signal) or an error name (a
\* string: spawn failure, maxBuffer exceeded).
ExecFileError(fate) ==
    CASE fate.how = "exit" /\ fate.code = 0 -> Null
      [] fate.how = "exit" /\ fate.code # 0 ->
            Some([type |-> "number", code |-> fate.code])
      [] fate.how = "signal" -> Some([type |-> "object", code |-> 0])
      [] OTHER -> Some([type |-> "string", code |-> 0])

\* error ? (typeof error.code === "number" ? error.code : 1) : 0   (line 27)
ExecExitCode(error) ==
    IF error # Null
    THEN (IF error[1].type = "number" THEN error[1].code ELSE 1)
    ELSE 0

\* The callback of lines 23-29.
ExecCallbackResult(error, out, err) ==
    ExecResult(Coalesce(out, <<>>), Coalesce(err, <<>>), ExecExitCode(error))

\* exec(cmd, args): the promise executor calls execFile (lines 22-23), which
\* starts the child or throws synchronously (an argument it rejects, or a
\* spawn failure other than EACCES, EAGAIN, EMFILE, ENFILE, ENOENT); a throw
\* inside the executor rejects the promise.
Exec(launch) ==
    /\ eStatus = "idle"
    /\ eStatus' = IF launch = "child" THEN "pending" ELSE "rejected"
    /\ UNCHANGED <<eTimedOut, eFate, eResult>>

\* The timeout of line 23 expires: the runtime signals the child.
ExecTimeout ==
    /\ eStatus = "pending"
    /\ ~eTimedOut
    /\ eTimedOut' = TRUE
    /\ UNCHANGED <<eStatus, eFate, eResult>>

\* The child has ended and execFile invokes the callback (lines 23-29).
ExecFileCallback(fate, out, err) ==
    /\ eStatus = "pending"
    /\ eStatus' = "resolved"
    /\ eFate' = Some(fate)
    /\ eResult' = ExecCallbackResult(ExecFileError(fate), out, err)
    /\ UNCHANGED eTimedOut

execVars == <<eStatus, eTimedOut, eFate, eResult>>
streamVars == <<sStatus, sStdout, sStderr, sTimedOut, sClose, sClosed,
                sError, sFirst, sResult>>

\* The child object exists: spawn returned it (line 43).
ChildExists == sStatus \in {"pending", "resolved"}

\* execStream(cmd, args): the promise executor calls spawn (lines 39-43),
\* which returns a child or throws synchronously; a throw inside the
\* executor rejects the promise.
ExecStream(launch) ==
    /\ sStatus = "idle"
    /\ sStatus' = IF launch = "child" THEN "pending" ELSE "rejected"
    /\ UNCHANGED <<sStdout, sStderr, sTimedOut, sClose, sClosed, sError,
                   sFirst, sResult>>

\* child.stdout.on("data", chunk => stdout += chunk) (lines 45-47).  The
\* close event comes after the streams have ended.
StdoutData(chunk) ==
    /\ ChildExists
    /\ ~sClosed
    /\ Len(sStdout) < MaxChunks
    /\ sStdout' = Append(sStdout, chunk)
    /\ UNCHANGED <<sStatus, sStderr, sTimedOut, sClose, sClosed, sError,
                   sFirst, sResult>>

\* child.stderr.on("data", chunk => stderr += chunk) (lines 48-50).
StderrData(chunk) ==
    /\ ChildExists
    /\ ~sClosed
    /\ Len(sStderr) < MaxChunks
    /\ sStderr' = Append(sStderr, chunk)
    /\ UNCHANGED <<sStatus, sStdout, sTimedOut, sClose, sClosed, sError,
                   sFirst, sResult>>

\* The timeout of line 43 expires: the runtime signals the child.
StreamTimeout ==
    /\ ChildExists
    /\ ~sClosed
    /\ ~sTimedOut
    /\ sTimedOut' = TRUE
    /\ UNCHANGED <<sStatus, sStdout, sStderr, sClose, sClosed, sError,
                   sFirst, sResult>>

ResolveLastWins(status, old, new) == new
\* resolve(value) of a promise: the first call settles it, later calls
\* have no effect (lines 52, 55).
Resolve(status, old, new) == IF status = "pending" THEN new ELSE old

\* The close handler of lines 51-53 runs.
OnClose(code) ==
    /\ ChildExists
    /\ ~sClosed
    /\ sClosed' = TRUE
    /\ sClose' = code
    /\ sFirst' = IF sFirst = "none" THEN "close" ELSE sFirst
    /\ sResult' = Resolve(sStatus, sResult,
                          StreamCloseResult(sStdout, sStderr, code))
    /\ sStatus' = "resolved"
    /\ UNCHANGED <<sStdout, sStderr, sTimedOut, sError>>

\* The error handler of lines 54-56 runs.
OnError(msg) ==
    /\ ChildExists
    /\ sError = Null
    /\ sError' = Some([stdout |-> sStdout, stderr |-> sStderr, msg |-> msg])
    /\ sFirst' = IF sFirst = "none" THEN "error" ELSE sFirst
    /\ sResult' = Resolve(sStatus, sResult,
                          StreamErrorResult(sStdout, sStderr, msg))
    /\ sStatus' = "resolved"
    /\ UNCHANGED <<sStdout, sStderr, sTimedOut, sClose, sClosed>>

(***************************************************************************)
(* The flow document builder: buildYaml, formatStep, formatValue and       *)
(* escapeYaml (lines 70-130), pure functions on texts and values.          *)
(*                                                                         *)
(* A text is a sequence of tokens.  Every character the builder or a       *)
(* reader of the document treats specially (newline, backslash, double     *)
(* quote, space, colon, dash, the JSON punctuation, a digit) is a token of *)
(* its own; a run of other characters (a word such as tapOn) is one token. *)
(***************************************************************************)
MaxStr == 3
MaxSteps == 2
MaxEntries == 2
MaxItems == 2

BS == "\\"
DQ == "\""
SP == " "

\* Number of occurrences of the character ch in text.
CountOf(text, ch) == Cardinality({i \in DOMAIN text : text[i] = ch})

\* The lines of a text: the pieces between its newlines.
RECURSIVE LinesOf(_)
LinesOf(text) ==
    IF NL \notin Range(text) THEN <<text>>
    ELSE LET i == CHOOSE k \in DOMAIN text :
                     text[k] = NL /\ \A j \in 1..(k - 1) : text[j] # NL
         IN  <<SubSeq(text, 1, i - 1)>> \o LinesOf(SubSeq(text, i + 1, Len(text)))

RECURSIVE Concat(_)
Concat(texts) == IF texts = <<>> THEN <<>> ELSE Head(texts) \o Concat(Tail(texts))

StartsWith(text, prefix) ==
    Len(text) >= Len(prefix) /\ SubSeq(text, 1, Len(prefix)) = prefix

\* Array.prototype.join (lines 75, 110, 115).
RECURSIVE Join(_, _)
Join(texts, sep) ==
    IF texts = <<>> THEN <<>>
    ELSE IF Len(texts) = 1 THEN texts[1]
    ELSE texts[1] \o sep \o Join(Tail(texts), sep)

\* s.replace(/ch/g, by): every occurrence of the character ch in s, found
\* left to right in s itself, is replaced by the text by.
RECURSIVE ReplaceFirst(_, _, _)
ReplaceFirst(s, ch, by) ==
    IF s = <<>> THEN <<>>
    ELSE IF Head(s) = ch THEN by \o Tail(s)
    ELSE <<Head(s)>> \o ReplaceFirst(Tail(s), ch, by)
RECURSIVE ReplaceAll(_, _, _)
ReplaceAll(s, ch, by) ==
    IF s = <<>> THEN <<>>
    ELSE (IF Head(s) = ch THEN by ELSE <<Head(s)>>) \o ReplaceAll(Tail(s), ch, by)

EscapeYamlQuoteFirst(s) == ReplaceAll(ReplaceAll(s, DQ, <<BS, DQ>>), BS, <<BS, BS>>)
\* s.replace(/\\/g, "\\\\").replace(/"/g, '\\"')   (lines 128-130)
EscapeYaml(s) == ReplaceAll(ReplaceAll(s, BS, <<BS, BS>>), DQ, <<BS, DQ>>)

\* A value of the untyped params field (line 67) and of the entries below
\* it: its type tag and, by tag, the text of a string (s), the number (n),
\* the boolean (b), the entries of a mapping in iteration order as
\* <<key, value>> pairs (e), the items of an array (a).
Value(t, s, n, b, e, a) == [t |-> t, s |-> s, n |-> n, b |-> b, e |-> e, a |-> a]
UndefV == Value("undefined", <<>>, 0, FALSE, <<>>, <<>>)
NullV == Value("null", <<>>, 0, FALSE, <<>>, <<>>)
StrV(s) == Value("string", s, 0, FALSE, <<>>, <<>>)
NumV(n) == Value("number", <<>>, n, FALSE, <<>>, <<>>)
BoolV(b) == Value("boolean", <<>>, 0, b, <<>>, <<>>)
ObjV(e) == Value("object", <<>>, 0, FALSE, e, <<>>)
ArrV(a) == Value("array", <<>>, 0, FALSE, <<>>, a)
\* A value JSON.stringify has no serialization for: a BigInt (typeof
\* "bigint").
BigV == Value("bigint", <<>>, 10, FALSE, <<>>, <<>>)

FlowStep(command, params) == [command |-> command, params |-> params]

Digit(d) == <<"0", "1", "2", "3", "4", "5", "6", "7", "8", "9">>[d + 1]

\* String(n) / `${n}` of a non-negative integer (lines 94, 124).
RECURSIVE NumberToString(_)
NumberToString(n) ==
    IF n < 10 THEN <<Digit(n)>>
    ELSE NumberToString(n \div 10) \o <<Digit(n % 10)>>

\* String(b) / `${b}` of a boolean (lines 99, 124).
BooleanToString(b) == IF b THEN <<"true">> ELSE <<"false">>

\* typeof v === "object" (lines 103, 106): true of mappings, arrays and null.
TypeofObject(v) == v.t \in {"object", "array", "null"}

\* Object.entries(v) (lines 104, 108): the entries of a mapping in its
\* iteration order; of an array, its items under their indices.
ObjectEntries(v) ==
    IF v.t = "array"
    THEN [i \in DOMAIN v.a |-> <<NumberToString(i - 1), v.a[i]>>]
    ELSE v.e

\* The content of a JSON string literal: quote, backslash and newline are
\* escaped.
RECURSIVE JsonQuote(_)
JsonQuote(s) ==
    IF s = <<>> THEN <<>>
    ELSE (CASE Head(s) = DQ -> <<BS, DQ>>
            [] Head(s) = BS -> <<BS, BS>>
            [] Head(s) = NL -> <<BS, "n">>
            [] OTHER -> <<Head(s)>>) \o JsonQuote(Tail(s))

\* JSON.stringify(v) without indentation (lines 119, 125), of a value that
\* is not undefined.
RECURSIVE JsonStringify(_)
JsonStringify(v) ==
    CASE v.t = "string" -> <<DQ>> \o JsonQuote(v.s) \o <<DQ>>
      [] v.t = "number" -> NumberToString(v.n)
      [] v.t = "boolean" -> BooleanToString(v.b)
      [] v.t = "array" ->
            <<"[">> \o Join([i \in DOMAIN v.a |-> JsonStringify(v.a[i])], <<",">>)
                \o <<"]">>
      [] v.t = "object" ->
            <<"{">> \o Join([i \in DOMAIN v.e |->
                               <<DQ>> \o JsonQuote(v.e[i][1]) \o <<DQ, ":">>
                                   \o JsonStringify(v.e[i][2])], <<",">>)
                \o <<"}">>
      [] OTHER -> <<"null">>

\* JSON.stringify(v) throws a TypeError (lines 119, 125): v is a BigInt or
\* holds one.
RECURSIVE JsonStringifyThrows(_)
JsonStringifyThrows(v) ==
    CASE v.t = "bigint" -> TRUE
      [] v.t = "array" -> \E i \in DOMAIN v.a : JsonStringifyThrows(v.a[i])
      [] v.t = "object" -> \E i \in DOMAIN v.e : JsonStringifyThrows(v.e[i][2])
      [] OTHER -> FALSE

\* formatValue(v) throws: v reaches JSON.stringify (line 125), which throws.
FormatValueThrows(v) ==
    v.t \notin {"string", "number", "boolean"} /\ JsonStringifyThrows(v)

\* formatValue (lines 122-126).  JSON.stringify(undefined) is undefined,
\* which the templates of lines 109 and 113 print as the word undefined.
FormatValue(v) ==
    CASE v.t = "string" -> <<DQ>> \o EscapeYaml(v.s) \o <<DQ>>
      [] v.t = "number" -> NumberToString(v.n)
      [] v.t = "boolean" -> BooleanToString(v.b)
      [] v.t = "undefined" -> <<"undefined">>
      [] OTHER -> JsonStringify(v)

\* The indentation of the templates of lines 113 and 109.
FirstIndent == 6
SecondIndent == 8
Indent(n) == [i \in 1..n |-> SP]

\* `        ${nk}: ${formatValue(nv)}` (line 109)
FormatNestedEntry(nk, nv) == Indent(SecondIndent) \o nk \o <<":", SP>> \o FormatValue(nv)

\* The callback of lines 105-114 for one entry of params.
FormatEntry(k, v) ==
    IF TypeofObject(v) /\ v.t # "null"
    THEN Indent(FirstIndent) \o k \o <<":", NL>>
            \o Join([i \in DOMAIN ObjectEntries(v) |->
                        FormatNestedEntry(ObjectEntries(v)[i][1],
                                          ObjectEntries(v)[i][2])], <<NL>>)
    ELSE Indent(FirstIndent) \o k \o <<":", SP>> \o FormatValue(v)

\* The callback of lines 105-114 throws for one entry of params.
FormatEntryThrows(k, v) ==
    IF TypeofObject(v) /\ v.t # "null"
    THEN \E i \in DOMAIN ObjectEntries(v) : FormatValueThrows(ObjectEntries(v)[i][2])
    ELSE FormatValueThrows(v)

IsObjectBlockNoArrayCheck(params) == TypeofObject(params)
\* typeof params === "object" && !Array.isArray(params) (line 103), reached
\* with params not null.
IsObjectBlock(params) == TypeofObject(params) /\ params.t # "array"

\* formatStep (lines 79-120).
FormatStep(step) ==
    LET command == step.command
        params == step.params
        head == <<"-", SP>> \o command
    IN  CASE params.t \in {"undefined", "null"} -> head
          [] params.t = "string" ->
                head \o <<":", SP, DQ>> \o EscapeYaml(params.s) \o <<DQ>>
          [] params.t = "number" -> head \o <<":", SP>> \o NumberToString(params.n)
          [] params.t = "boolean" -> head \o <<":", SP>> \o BooleanToString(params.b)
          [] OTHER ->
                IF IsObjectBlock(params)
                THEN head \o <<":", NL>>
                        \o Join([i \in DOMAIN ObjectEntries(params) |->
                                    FormatEntry(ObjectEntries(params)[i][1],
                                                ObjectEntries(params)[i][2])],
                                <<NL>>)
                ELSE head \o <<":", SP>> \o JsonStringify(params)

\* formatStep(step) throws instead of returning (lines 104-119).
FormatStepThrows(step) ==
    LET params == step.params
    IN  CASE params.t \in {"undefined", "null", "string", "number", "boolean"} -> FALSE
          [] OTHER ->
                IF IsObjectBlock(params)
                THEN \E i \in DOMAIN ObjectEntries(params) :
                        FormatEntryThrows(ObjectEntries(params)[i][1],
                                          ObjectEntries(params)[i][2])
                ELSE JsonStringifyThrows(params)

StepLinesReversed(steps) ==
    [k \in DOMAIN steps |-> FormatStep(steps[Len(steps) + 1 - k])]
\* for (const step of steps) lines.push(formatStep(step))   (lines 72-74)
StepLines(steps) == [k \in DOMAIN steps |-> FormatStep(steps[k])]

\* buildYaml (lines 70-76).
BuildYaml(appId, steps) ==
    LET lines == <<<<"appId", ":", SP>> \o appId, <<"-", "-", "-">>>>
                    \o StepLines(steps)
    IN  Join(lines, <<NL>>) \o <<NL>>

\* buildYaml(appId, steps) throws: one of its formatStep calls does
\* (line 73).
BuildYamlThrows(steps) == \E k \in DOMAIN steps : FormatStepThrows(steps[k])

(***************************************************************************)
(* One call of escapeYaml, formatStep or buildYaml on inputs chosen in the *)
(* initial state.                                                          *)
(***************************************************************************)
VARIABLES
    yCall,   \* the function called: escapeYaml, formatStep, buildYaml
    yStr,    \* escapeYaml: the argument s
    yAppId,  \* buildYaml: the argument appId
    ySteps,  \* buildYaml: the argument steps; formatStep: the one step
    yDone,   \* the function has returned
    yThrew,  \* the function has thrown instead of returning
    yOut     \* the text it returned

yamlVars == <<yCall, yStr, yAppId, ySteps, yDone, yThrew, yOut>>

\* The characters of the strings tried: an ordinary one and the ones the
\* escaping and the line structure depend on.
Chars == {"a", BS, DQ, NL}
Strings == SeqUpTo(Chars, MaxStr)

\* Sequences of pairwise distinct keys, at most n of them.
KeyLists(keys, n) ==
    {ks \in SeqUpTo(keys, n) : \A i, j \in DOMAIN ks : ks[i] = ks[j] => i = j}

\* The mappings with at most MaxEntries entries, keys among keys (a mapping
\* has each key once), values among values, in every iteration order.
Mappings(keys, values) ==
    UNION {{ObjV([i \in DOMAIN ks |-> <<ks[i], vs[i]>>]) : vs \in [DOMAIN ks -> values]} :
              ks \in KeyLists(keys, MaxEntries)}

Keys == {<<"x">>, <<"y">>}
ArrayItems == {NumV(1), StrV(<<"a", DQ>>), NullV}
Arrays == {ArrV(a) : a \in SeqUpTo(ArrayItems, MaxItems)}

\* The values tried inside a mapping: at the second level scalars, null and
\* a third-level mapping; at the first level scalars, null, second-level
\* mappings and arrays.
NestedValues ==
    {StrV(<<"a", DQ>>), NumV(50), NullV, ObjV(<<<<<<"a">>, NumV(1)>>>>)}
EntryValues ==
    {StrV(<<"a">>), StrV(<<"a", NL>>), NumV(50), BoolV(TRUE), NullV, BigV}
        \cup Mappings(Keys, NestedValues)
        \cup {ArrV(<<>>), ArrV(<<NumV(1), NumV(2), NumV(3)>>)}

\* The params tried by formatStep: every shape of lines 83-119.
ParamValues ==
    {UndefV, NullV} \cup {StrV(s) : s \in Strings}
        \cup {NumV(0), NumV(5), NumV(500)} \cup {BoolV(b) : b \in BOOLEAN}
        \cup Mappings(Keys, EntryValues) \cup Arrays
        \cup {BigV, ArrV(<<NumV(1), BigV>>)}

\* The steps tried by buildYaml: one or two of every shape.
DocSteps ==
    {FlowStep(<<"scroll">>, UndefV),
     FlowStep(<<"hideKeyboard">>, NullV),
     FlowStep(<<"tapOn">>, StrV(<<"Login">>)),
     FlowStep(<<"inputText">>, StrV(<<"a", NL, "a">>)),
     FlowStep(<<"eraseText">>, NumV(5)),
     FlowStep(<<"setAirplaneMode">>, BoolV(TRUE)),
     FlowStep(<<"tapOn">>, ObjV(<<>>)),
     FlowStep(<<"tapOn">>,
              ObjV(<<<<<<"point">>,
                       ObjV(<<<<<<"x">>, NumV(50)>>, <<<<"y">>, NumV(100)>>>>)>>>>)),
     FlowStep(<<"custom">>, ArrV(<<NumV(1), NumV(2), NumV(3)>>)),
     FlowStep(<<"custom">>, BigV)}

AppIds == {<<"com.test.app">>, <<>>}

\* No call of the builder is modelled (specifications Spec and SpecRunner).
InitYamlIdle ==
    /\ yCall = "none"
    /\ yStr = <<>>
    /\ yAppId = <<>>
    /\ ySteps = <<>>
    /\ yDone = FALSE
    /\ yThrew = FALSE
    /\ yOut = <<>>

InitYamlCall ==
    /\ yDone = FALSE
    /\ yThrew = FALSE
    /\ yOut = <<>>
    /\ \/ /\ yCall = "escapeYaml"
          /\ yStr \in Strings
          /\ yAppId = <<>>
          /\ ySteps = <<>>
       \/ /\ yCall = "formatStep"
          /\ yStr = <<>>
          /\ yAppId = <<>>
          /\ ySteps \in {<<FlowStep(<<"tapOn">>, p)>> : p \in ParamValues}
       \/ /\ yCall = "buildYaml"
          /\ yStr = <<>>
          /\ yAppId \in AppIds
          /\ ySteps \in SeqUpTo(DocSteps, MaxSteps)

EscapeYamlCall ==
    /\ yCall = "escapeYaml" /\ ~yDone
    /\ yOut' = EscapeYaml(yStr)
    /\ yDone' = TRUE
    /\ UNCHANGED <<yCall, yStr, yAppId, ySteps, yThrew>>

FormatStepCall ==
    /\ yCall = "formatStep" /\ ~yDone /\ ~yThrew
    /\ IF FormatStepThrows(ySteps[1])
       THEN yThrew' = TRUE /\ UNCHANGED <<yDone, yOut>>
       ELSE /\ yOut' = FormatStep(ySteps[1])
            /\ yDone' = TRUE
            /\ UNCHANGED yThrew
    /\ UNCHANGED <<yCall, yStr, yAppId, ySteps>>

BuildYamlCall ==
    /\ yCall = "buildYaml" /\ ~yDone /\ ~yThrew
    /\ IF BuildYamlThrows(ySteps)
       THEN yThrew' = TRUE /\ UNCHANGED <<yDone, yOut>>
       ELSE /\ yOut' = BuildYaml(yAppId, ySteps)
            /\ yDone' = TRUE
            /\ UNCHANGED yThrew
    /\ UNCHANGED <<yCall, yStr, yAppId, ySteps>>

(***************************************************************************)
(* The client operations listDevices (lines 147-193), runFlow (196-207)    *)
(* and takeScreenshot (269-284), and the swipe and run_flow tool handlers  *)
(* of src/src/index.ts.  One caller awaits one operation at a time;        *)
(* takeScreenshot may be called again after it completed.                  *)
(*                                                                         *)
(* Arguments, paths and command-line words are texts.  An optional         *)
(* argument is Null when it was not supplied and Some(text) when it was.   *)
(***************************************************************************)
MaxShots == 2
MaxIosDevices == 2

VARIABLES
    kCall,      \* the operation called ("none" before any)
    kIn,        \* its arguments
    kPc,        \* where the call stands
    kDir,       \* the scratch directory the call created (Null: none)
    kDirs,      \* the scratch directories on disk
    kFsOps,     \* the filesystem calls of this call that took effect
    kSpawned,   \* the processes this call launched or tried to launch
    kExec,      \* listDevices: the promises of the two exec calls
    kOut,       \* what the call returned
    kShots      \* the takeScreenshot calls made so far

clientVars == <<kCall, kIn, kPc, kDir, kDirs, kFsOps, kSpawned, kExec, kOut, kShots>>

\* spawn or execFile hands back a child, or throws.
Launches == {"child", "throws"}

NoInput ==
    [flowPath |-> <<>>, deviceId |-> Null, outputPath |-> Null,
     direction |-> Null, start |-> Null, end |-> Null,
     yamlContent |-> Null, filePath |-> Null]

NoOutput ==
    [path |-> <<>>, exitCode |-> -1, isError |-> FALSE, message |-> <<>>,
     android |-> <<>>, ios |-> <<>>]

\* fail(text) of index.ts.
Fail(text) == [NoOutput EXCEPT !.message = text, !.isError = TRUE]

\* The truthiness test of `if (deviceId)`, `!yamlContent`, `start && end`:
\* undefined and the empty string are falsy.
Truthy(opt) == opt # Null /\ opt[1] # <<>>

\* runFlow's argument list (lines 201-205); takeScreenshot builds its own
\* the same way (lines 278-280).
RunFlowArgs(flowPath, deviceId) ==
    (IF Truthy(deviceId) THEN <<<<"--device">>, deviceId[1]>> ELSE <<>>)
        \o <<<<"test">>, flowPath>>

\* path.join(folder, name)
JoinPath(folder, name) == folder \o <<"/", name>>

\* mkdtemp(join(tmpdir(), prefix)) with the prefix of the operation (lines
\* 217, 270; index.ts): a directory that did not exist; the n-th one made
\* gets the suffix n.
TmpDir(call, n) ==
    <<"/tmp", "/",
      CASE call = "takeScreenshot" -> "maestro-mcp-screenshot-"
        [] call = "run_flow" -> "maestro-mcp-flow-"
        [] OTHER -> "maestro-mcp-">> \o NumberToString(n)

\* The flow file an operation writes into its scratch directory.
FlowFile(call, folder) ==
    JoinPath(folder, IF call = "takeScreenshot" THEN "screenshot_flow.yaml" ELSE "flow.yaml")

ScreenshotPathOr(outputPath, folder) ==
    IF Truthy(outputPath) THEN outputPath[1] ELSE JoinPath(folder, "screenshot.png")
\* const screenshotPath = outputPath ?? join(dir, "screenshot.png")
ScreenshotPath(outputPath, folder) == Coalesce(outputPath, JoinPath(folder, "screenshot.png"))

SwipeInputValidEitherPoint(direction, start, end) ==
    Truthy(direction) \/ Truthy(start) \/ Truthy(end)
\* The swipe handler's if / else if: a direction, or both points.
SwipeInputValid(direction, start, end) ==
    Truthy(direction) \/ (Truthy(start) /\ Truthy(end))

\* The text a tool hands back for a finished run: ok(output) when the exit
\* code is 0, fail(output) otherwise.
ToolResult(out) ==
    [out EXCEPT !.isError = out.exitCode # 0,
                !.message = <<"**Exit:**", SP>> \o
                            (IF out.exitCode < 0 THEN <<"-">> ELSE NumberToString(out.exitCode))]

(***************************************************************************)
(* listDevices: the output texts of adb and xcrun and what lines 160-190   *)
(* make of them.                                                           *)
(***************************************************************************)
\* What a command printed: its text and, when the text is a JSON document,
\* the value JSON.parse makes of it.  Here the empty output.
EmptyStdout == [text |-> <<>>, parses |-> FALSE, data |-> NullV]

\* The white space of trim and of \s: space, tab, carriage return.
White == {SP, "\t", "\r"}

\* String.prototype.trim (line 164).
RECURSIVE Trim(_)
Trim(t) ==
    IF t # <<>> /\ Head(t) \in White THEN Trim(Tail(t))
    ELSE IF t # <<>> /\ t[Len(t)] \in White THEN Trim(SubSeq(t, 1, Len(t) - 1))
    ELSE t

\* /^(\S+)\s+(device|offline|unauthorized)$/ (line 164): a word, white
\* space, one of the three statuses.  A word is one token.
AdbLineMatches(t) ==
    /\ Len(t) >= 3
    /\ t[1] \notin White
    /\ t[Len(t)] \in {"device", "offline", "unauthorized"}
    /\ \A i \in 2..(Len(t) - 1) : t[i] \in White

\* Lines 163-168.
RECURSIVE AndroidEntries(_)
AndroidEntries(lines) ==
    IF lines = <<>> THEN <<>>
    ELSE LET t == Trim(Head(lines))
         IN  (IF AdbLineMatches(t) THEN <<[id |-> t[1], status |-> t[Len(t)]]>> ELSE <<>>)
                 \o AndroidEntries(Tail(lines))

\* Lines 160-169: the header line is skipped.
AndroidList(res) ==
    IF res.exitCode = 0 THEN AndroidEntries(Tail(LinesOf(res.stdout.text))) ELSE <<>>

\* v[key] of a value that is neither null nor undefined: an entry of a
\* mapping, an item of an array under its index, undefined otherwise.
GetProp(v, key) ==
    LET es == ObjectEntries(v)
    IN  IF \E i \in DOMAIN es : es[i][1] = key
        THEN es[CHOOSE i \in DOMAIN es : es[i][1] = key][2]
        ELSE UndefV

\* Object.keys(v) (line 176).
ObjectKeys(v) == [i \in DOMAIN ObjectEntries(v) |-> ObjectEntries(v)[i][1]]

Nullish(v) == v.t \in {"null", "undefined"}

\* The falsy values of `data.devices || {}` (line 175).
Falsy(v) ==
    \/ Nullish(v)
    \/ v = BoolV(FALSE)
    \/ v = NumV(0)
    \/ v = StrV(<<>>)

\* for (... of v) (line 177): arrays and strings can be iterated, a string
\* over its tokens; anything else is a TypeError.
Iterable(v) == v.t \in {"array", "string"}
Items(v) == IF v.t = "array" THEN v.a ELSE [i \in DOMAIN v.s |-> StrV(<<v.s[i]>>)]

\* runtime.split(".").pop() (line 181).
RECURSIVE LastSegment(_)
LastSegment(text) ==
    IF "." \notin Range(text) THEN text
    ELSE LET i == CHOOSE k \in DOMAIN text : text[k] = "."
         IN  LastSegment(SubSeq(text, i + 1, Len(text)))

\* `${v}` (line 181).
TemplateText(v) ==
    CASE v.t = "string" -> v.s
      [] v.t = "number" -> NumberToString(v.n)
      [] v.t = "boolean" -> BooleanToString(v.b)
      [] v.t = "undefined" -> <<"undefined">>
      [] v.t = "null" -> <<"null">>
      [] OTHER -> <<"[object Object]">>

\* String.prototype.toLowerCase (line 182), of the words that occur.
ToLowerCase(text) ==
    [i \in DOMAIN text |->
        CASE text[i] = "Booted" -> "booted"
          [] text[i] = "Shutdown" -> "shutdown"
          [] OTHER -> text[i]]

\* The entry pushed at lines 179-183.
IosEntry(device, runtime) ==
    LET state == GetProp(device, <<"state">>)
    IN  [id |-> GetProp(device, <<"udid">>),
         name |-> TemplateText(GetProp(device, <<"name">>))
                     \o <<SP, "(">> \o LastSegment(runtime) \o <<")">>,
         status |-> IF Nullish(state) THEN <<"unknown">> ELSE ToLowerCase(state.s)]

\* The inner loop (lines 177-185) over the devices of one runtime, from the
\* list pushed so far: the list afterwards, and whether a step threw.
\* Reading a property of null throws (line 178); state?.toLowerCase() of a
\* state that is neither nullish nor a string throws (line 182), before
\* the push.
RECURSIVE IosRuntimeDevices(_, _, _)
IosRuntimeDevices(items, runtime, acc) ==
    IF items = <<>> THEN [list |-> acc, threw |-> FALSE]
    ELSE LET device == Head(items)
         IN  IF Nullish(device) THEN [list |-> acc, threw |-> TRUE]
             ELSE IF GetProp(device, <<"isAvailable">>) = BoolV(FALSE)
             THEN IosRuntimeDevices(Tail(items), runtime, acc)
             ELSE IF GetProp(device, <<"state">>).t \notin {"null", "undefined", "string"}
             THEN [list |-> acc, threw |-> TRUE]
             ELSE IosRuntimeDevices(Tail(items), runtime,
                                    Append(acc, IosEntry(device, runtime)))

\* The outer loop (lines 176-186).
RECURSIVE IosRuntimes(_, _, _)
IosRuntimes(devices, keys, acc) ==
    IF keys = <<>> THEN [list |-> acc, threw |-> FALSE]
    ELSE LET v == GetProp(devices, Head(keys))
         IN  IF ~Iterable(v) THEN [list |-> acc, threw |-> TRUE]
             ELSE LET r == IosRuntimeDevices(Items(v), Head(keys), acc)
                  IN  IF r.threw THEN r ELSE IosRuntimes(devices, Tail(keys), r.list)

\* The body of the try block (lines 174-186): the list when the block is
\* left, normally or by an exception.
IosParse(stdout) ==
    IF ~stdout.parses \/ Nullish(stdout.data) THEN [list |-> <<>>, threw |-> TRUE]
    ELSE LET d == GetProp(stdout.data, <<"devices">>)
             devices == IF Falsy(d) THEN ObjV(<<>>) ELSE d
         IN  IosRuntimes(devices, ObjectKeys(devices), <<>>)

\* Lines 171-190: the catch block ignores the exception.
IosList(res) == IF res.exitCode = 0 THEN IosParse(res.stdout).list ELSE <<>>

\* An exec promise of listDevices: its status, what the callback reported
\* and its position among the callbacks.
Promise(status, out, code, seq) ==
    [status |-> status, stdout |-> out, exitCode |-> code, seq |-> seq]

NoCatchFallback(p) == p
\* .catch(() => ({stdout: "", stderr: "", exitCode: 1})) (lines 152-157)
CatchFallback(p) ==
    IF p.status = "rejected" THEN Promise("resolved", EmptyStdout, 1, p.seq) ELSE p

\* The outputs of `adb devices` tried.
AdbOutputs ==
    {[text |-> t, parses |-> FALSE, data |-> NullV] : t \in
        {<<>>,
         <<"List of devices attached", NL, "emulator-5554", "\t", "device", NL, NL>>,
         <<"List of devices attached", NL, "R58M", SP, SP, "offline", "\r", NL,
           "*", SP, "daemon", SP, "started", NL, "ZX1", "\t", "unauthorized">>,
         <<"emulator-5554", "\t", "device">>}}

\* The outputs of `xcrun simctl list devices --json` tried: documents with
\* one runtime of up to MaxIosDevices simulators (among them an unavailable
\* one, one without isAvailable and state, one whose state is a number, and
\* null), documents with a second runtime that is not a list, documents
\* without devices, and texts that are not JSON.
IosOutputs ==
    LET Runtime == <<"com.apple.CoreSimulator.SimRuntime", ".", "iOS-17-0">>
        OtherRuntime == <<"com.apple.CoreSimulator.SimRuntime", ".", "tvOS-17-0">>
        Sims ==
            {ObjV(<<<<<<"udid">>, StrV(<<"A1">>)>>, <<<<"name">>, StrV(<<"iPhone 15">>)>>,
                    <<<<"isAvailable">>, BoolV(TRUE)>>, <<<<"state">>, StrV(<<"Booted">>)>>>>),
             ObjV(<<<<<<"udid">>, StrV(<<"B2">>)>>, <<<<"name">>, StrV(<<"iPhone 14">>)>>,
                    <<<<"isAvailable">>, BoolV(FALSE)>>, <<<<"state">>, StrV(<<"Shutdown">>)>>>>),
             ObjV(<<<<<<"udid">>, StrV(<<"C3">>)>>, <<<<"name">>, StrV(<<"iPad">>)>>>>),
             ObjV(<<<<<<"udid">>, StrV(<<"D4">>)>>, <<<<"state">>, NumV(5)>>>>),
             NullV}
        Doc(devices) == ObjV(<<<<<<"devices">>, devices>>>>)
        Docs ==
            {Doc(ObjV(<<<<Runtime, ArrV(ds)>>>>)) : ds \in SeqUpTo(Sims, MaxIosDevices)}
                \cup {Doc(ObjV(<<<<Runtime, ArrV(<<d>>)>>, <<OtherRuntime, NumV(5)>>>>)) :
                         d \in Sims}
                \cup {Doc(NullV), ObjV(<<>>), NullV}
    IN  {[text |-> <<"json">>, parses |-> TRUE, data |-> d] : d \in Docs}
            \cup {[text |-> <<"xcrun:", SP, "error:", SP, "unable to find utility">>,
                   parses |-> FALSE, data |-> NullV],
                  EmptyStdout}

InitClient ==
    /\ kCall = "none"
    /\ kIn = NoInput
    /\ kPc = "idle"
    /\ kDir = Null
    /\ kDirs = {}
    /\ kFsOps = <<>>
    /\ kSpawned = <<>>
    /\ kExec = [android |-> Promise("none", EmptyStdout, -1, 0),
                ios |-> Promise("none", EmptyStdout, -1, 0)]
    /\ kOut = NoOutput
    /\ kShots = 0

\* execStream("maestro", args) (line 206, 282): spawn hands back a child
\* and the promise is pending, or throws and the promise is rejected.  The
\* rejection leaves takeScreenshot, runFlow and the run_flow handler at
\* once; executeSteps first runs its finally block.
Launch(call, args, l) ==
    /\ kSpawned' = Append(kSpawned, [cmd |-> "maestro", args |-> args])
    /\ kPc' = IF l = "child" THEN "run"
              ELSE IF call = "swipe" THEN "rmThrow" ELSE "thrown"

\* runFlow(flowPath, deviceId) called by itself (lines 196-207).
RunFlow(flowPath, deviceId, l) ==
    /\ kPc = "idle"
    /\ kCall' = "runFlow"
    /\ kIn' = [NoInput EXCEPT !.flowPath = flowPath, !.deviceId = deviceId]
    /\ Launch("runFlow", RunFlowArgs(flowPath, deviceId), l)
    /\ UNCHANGED <<kDir, kDirs, kFsOps, kExec, kOut, kShots>>

\* takeScreenshot(deviceId, outputPath) up to its first await (line 270).
TakeScreenshot(deviceId, outputPath) ==
    /\ \/ kPc = "idle"
       \/ kCall = "takeScreenshot" /\ kPc \in {"returned", "thrown"}
    /\ kShots < MaxShots
    /\ kCall' = "takeScreenshot"
    /\ kIn' = [NoInput EXCEPT !.deviceId = deviceId, !.outputPath = outputPath]
    /\ kPc' = "mkdtemp"
    /\ kDir' = Null
    /\ kFsOps' = <<>>
    /\ kSpawned' = <<>>
    /\ kOut' = NoOutput
    /\ kShots' = kShots + 1
    /\ UNCHANGED <<kDirs, kExec>>

\* The swipe handler of index.ts up to its first await: invalid input is
\* answered at once; otherwise executeSteps builds the document and calls
\* mkdtemp (lines 216-217).
SwipeTool(direction, start, end) ==
    /\ kPc = "idle"
    /\ kCall' = "swipe"
    /\ kIn' = [NoInput EXCEPT !.direction = direction, !.start = start, !.end = end]
    /\ IF SwipeInputValid(direction, start, end)
       THEN kPc' = "mkdtemp" /\ kOut' = kOut
       ELSE /\ kPc' = "returned"
            /\ kOut' = Fail(<<"Provide either 'direction' or both 'start' and 'end' points.">>)
    /\ UNCHANGED <<kDir, kDirs, kFsOps, kSpawned, kExec, kShots>>

\* The run_flow handler of index.ts up to its first await: neither input,
\* answered at once; content only, a scratch directory is made for it; a
\* file path, runFlow is called with it.
RunFlowTool(yamlContent, filePath, l) ==
    /\ kPc = "idle"
    /\ kCall' = "run_flow"
    /\ kIn' = [NoInput EXCEPT !.yamlContent = yamlContent, !.filePath = filePath]
    /\ IF ~Truthy(yamlContent) /\ ~Truthy(filePath)
       THEN kPc' = "returned" /\ kOut' = Fail(<<"Provide either yamlContent or filePath.">>) /\ kSpawned' = kSpawned
       ELSE IF Truthy(yamlContent) /\ ~Truthy(filePath)
       THEN kPc' = "mkdtemp" /\ kOut' = kOut /\ kSpawned' = kSpawned
       ELSE Launch("run_flow", RunFlowArgs(filePath[1], Null), l) /\ kOut' = kOut
    /\ UNCHANGED <<kDir, kDirs, kFsOps, kExec, kShots>>

\* mkdtemp settles (lines 217, 270; index.ts): the directory exists, or
\* the operation throws.
MkdtempSettle(ok) ==
    /\ kPc = "mkdtemp"
    /\ IF ok
       THEN LET d == TmpDir(kCall, Cardinality(kDirs) + 1)
            IN  /\ kDir' = Some(d)
                /\ kDirs' = kDirs \cup {d}
                /\ kFsOps' = Append(kFsOps, "mkdtemp")
                /\ kPc' = "write"
       ELSE kPc' = "thrown" /\ UNCHANGED <<kDir, kDirs, kFsOps>>
    /\ UNCHANGED <<kCall, kIn, kSpawned, kExec, kOut, kShots>>

\* writeFile settles (lines 219, 276; index.ts): the flow file is written
\* and the engine is launched on it, or the operation throws.
WriteFileSettle(ok, l) ==
    /\ kPc = "write"
    /\ IF ok
       THEN /\ kFsOps' = Append(kFsOps, "writeFile")
            /\ Launch(kCall, RunFlowArgs(FlowFile(kCall, kDir[1]), kIn.deviceId), l)
       ELSE kPc' = "thrown" /\ UNCHANGED <<kFsOps, kSpawned>>
    /\ UNCHANGED <<kCall, kIn, kDir, kDirs, kExec, kOut, kShots>>

\* The engine process ends and execStream's promise resolves with its exit
\* code (code ?? 1, line 52).  runFlow and takeScreenshot return (lines
\* 206, 283); executeSteps goes on to its finally block (line 225) and the
\* run_flow handler to its rm when it made a directory.
ChildClose(code) ==
    /\ kPc = "run"
    /\ LET out == [NoOutput EXCEPT !.exitCode = Coalesce(code, 1)]
       IN  CASE kCall = "takeScreenshot" ->
                   /\ kOut' = [out EXCEPT !.path = ScreenshotPath(kIn.outputPath, kDir[1])]
                   /\ kPc' = "returned"
             [] kCall = "runFlow" -> kOut' = out /\ kPc' = "returned"
             [] kCall = "run_flow" /\ kDir = Null ->
                   kOut' = ToolResult(out) /\ kPc' = "returned"
             [] OTHER -> kOut' = out /\ kPc' = "rm"
    /\ UNCHANGED <<kCall, kIn, kDir, kDirs, kFsOps, kSpawned, kExec, kShots>>

\* rm(dir, ...).catch(() => {}) settles (line 225; index.ts): the directory
\* is gone or, when rm failed, still there; the handler answers, or the
\* pending exception of executeSteps propagates.
RmSettle(ok) ==
    /\ kPc \in {"rm", "rmThrow"}
    /\ kDirs' = IF ok THEN kDirs \ {kDir[1]} ELSE kDirs
    /\ kFsOps' = IF ok THEN Append(kFsOps, "rm") ELSE kFsOps
    /\ kPc' = IF kPc = "rm" THEN "returned" ELSE "thrown"
    /\ kOut' = IF kPc = "rm" THEN ToolResult(kOut) ELSE kOut
    /\ UNCHANGED <<kCall, kIn, kDir, kSpawned, kExec, kShots>>

\* listDevices (lines 151-158): both exec calls are made at once; each
\* hands back a child or throws.
ListDevices(la, li) ==
    /\ kPc = "idle"
    /\ kCall' = "listDevices"
    /\ kPc' = "exec"
    /\ kSpawned' = <<[cmd |-> "adb", args |-> <<<<"devices">>>>],
                     [cmd |-> "xcrun",
                      args |-> <<<<"simctl">>, <<"list">>, <<"devices">>, <<"--json">>>>]>>
    /\ kExec' = [android |-> Promise(IF la = "child" THEN "pending" ELSE "rejected",
                                     EmptyStdout, -1, 0),
                 ios |-> Promise(IF li = "child" THEN "pending" ELSE "rejected",
                                 EmptyStdout, -1, 0)]
    /\ UNCHANGED <<kIn, kDir, kDirs, kFsOps, kOut, kShots>>

\* The callback of one of the two commands (exec, lines 23-29): the promise
\* resolves with what the command printed and its exit code.
ExecCallback(which, out, code) ==
    /\ kPc = "exec"
    /\ kExec[which].status = "pending"
    /\ kExec' = [kExec EXCEPT ![which] =
                    Promise("resolved", out, code,
                            IF "resolved" \in {kExec.android.status, kExec.ios.status}
                            THEN 2 ELSE 1)]
    /\ UNCHANGED <<kCall, kIn, kPc, kDir, kDirs, kFsOps, kSpawned, kOut, kShots>>

\* The await of Promise.all (line 151) ends: with both results, or with
\* the rejection of one of its promises.  Then lines 160-192.
ListDevicesReturn ==
    /\ kPc = "exec"
    /\ LET androidResult == CatchFallback(kExec.android)
           iosResult == CatchFallback(kExec.ios)
       IN  /\ \/ "rejected" \in {androidResult.status, iosResult.status}
              \/ androidResult.status = "resolved" /\ iosResult.status = "resolved"
           /\ IF "rejected" \in {androidResult.status, iosResult.status}
              THEN kPc' = "thrown" /\ kOut' = kOut
              ELSE /\ kPc' = "returned"
                   /\ kOut' = [NoOutput EXCEPT !.android = AndroidList(androidResult),
                                               !.ios = IosList(iosResult)]
    /\ UNCHANGED <<kCall, kIn, kDir, kDirs, kFsOps, kSpawned, kExec, kShots>>

(***************************************************************************)
(* Specifications.                                                         *)
(***************************************************************************)
vars == <<orchVars, runVars, yamlVars, clientVars>>

Init == InitOrch /\ InitRun /\ InitYamlIdle /\ InitClient

Next ==
    /\ UNCHANGED <<runVars, yamlVars, clientVars>>
    /\ \E c \in Calls :
        \/ pc[c] = "idle" /\ \E d \in {NoDevice, "dev-A"} : ExecuteSteps(c, d)
        \/ /\ pc[c] = "idle" /\ NextSlot(c) /\ TotalCost < MaxLoad
           /\ \E ds \in SeqUpTo(DeviceIds, MaxDevices) : ExecuteStepsMultiDevice(c, ds)
        \/ \E ok \in BOOLEAN : MkdtempDone(c, ok)
        \/ \E ok \in BOOLEAN : WriteFileDone(c, ok)
        \/ RunFlows(c)
        \/ \E i \in InFlight(c), ev \in FirstEvents : ChildSettle(c, i, ev)
        \/ AwaitDone(c)
        \/ \E ok \in BOOLEAN : RmDone(c, ok)

Spec == Init /\ [][Next]_vars

NextRunner ==
    /\ UNCHANGED <<orchVars, yamlVars, clientVars>>
    /\ \/ (\E l \in Launches : Exec(l)) /\ UNCHANGED streamVars
       \/ ExecTimeout /\ UNCHANGED streamVars
       \/ /\ \E f \in Fates, out \in {Null, Some(<<"out">>)},
               err \in {Null, Some(<<"err">>)} : ExecFileCallback(f, out, err)
          /\ UNCHANGED streamVars
       \/ (\E l \in Launches : ExecStream(l)) /\ UNCHANGED execVars
       \/ (\E ch \in StdoutChunks : StdoutData(ch)) /\ UNCHANGED execVars
       \/ (\E ch \in StderrChunks : StderrData(ch)) /\ UNCHANGED execVars
       \/ StreamTimeout /\ UNCHANGED execVars
       \/ (\E code \in CloseCodes : OnClose(code)) /\ UNCHANGED execVars
       \/ (\E msg \in ErrorMessages : OnError(msg)) /\ UNCHANGED execVars

SpecRunner == Init /\ [][NextRunner]_vars

InitYaml == InitOrch /\ InitRun /\ InitYamlCall /\ InitClient

NextYaml ==
    /\ UNCHANGED <<orchVars, runVars, clientVars>>
    /\ \/ EscapeYamlCall
       \/ FormatStepCall
       \/ BuildYamlCall

SpecYaml == InitYaml /\ [][NextYaml]_vars

NextClient ==
    /\ UNCHANGED <<orchVars, runVars, yamlVars>>
    /\ \/ \E p \in {<<"/flows", "/", "login.yaml">>},
             d \in {Null, Some(<<>>), Some(<<"emulator-5554">>)}, l \in Launches : RunFlow(p, d, l)
       \/ \E d \in {Null, Some(<<>>), Some(<<"emulator-5554">>)},
             o \in {Null, Some(<<>>), Some(<<"/out", "/", "shot.png">>)} : TakeScreenshot(d, o)
       \/ \E d \in {Null, Some(<<"up">>)},
             s \in {Null, Some(<<"10%,20%">>)},
             e \in {Null, Some(<<"90%,20%">>)} : SwipeTool(d, s, e)
       \/ \E y \in {Null, Some(<<>>), Some(<<"appId: com.test.app", NL, "---", NL>>)},
             f \in {Null, Some(<<>>), Some(<<"/flows", "/", "login.yaml">>)}, l \in Launches : RunFlowTool(y, f, l)
       \/ \E ok \in BOOLEAN : MkdtempSettle(ok)
       \/ \E ok \in BOOLEAN, l \in Launches : WriteFileSettle(ok, l)
       \/ \E code \in CloseCodes : ChildClose(code)
       \/ \E ok \in BOOLEAN : RmSettle(ok)
       \/ \E la \in Launches, li \in Launches : ListDevices(la, li)
       \/ \E out \in AdbOutputs, code \in ExitCodes : ExecCallback("android", out, code)
       \/ \E out \in IosOutputs, code \in ExitCodes : ExecCallback("ios", out, code)
       \/ ListDevicesReturn

SpecClient == Init /\ [][NextClient]_vars

(***************************************************************************)
(* Properties of the orchestrator (specification Spec).                    *)
(***************************************************************************)
IsSingle(c) == kind[c] = "executeSteps"
IsMulti(c) == kind[c] = "executeStepsMultiDevice"

\* The scratch directory of call c is on disk.
DirExists(c) == dir[c] # Null /\ dir[c][1] \in dirs

\* C1 as stated: when a call of executeSteps that got as far as runFlow has
\* returned or thrown, whatever the outcome of runFlow, its scratch
\* directory no longer exists.
C1_DirGoneAfterExecuteSteps ==
    \A c \in Calls :
        IsSingle(c) /\ Completed(c) /\ Launched(c) # {} => ~DirExists(c)

\* C1 amended: when a call of executeSteps that got as far as runFlow has
\* returned or thrown, whatever the outcome of runFlow (resolved with any
\* exit code, or rejected), it has run rm on its scratch directory exactly
\* once, and the directory no longer exists unless that rm itself failed.
C1_CleanupAttemptedAfterExecuteSteps ==
    \A c \in Calls :
        IsSingle(c) /\ Completed(c) /\ Launched(c) # {} =>
            /\ rmCount[c] = 1
            /\ ~rmFailed[c] => ~DirExists(c)

\* A call of executeSteps whose runFlow rejected has thrown, after deleting
\* its scratch directory.
C1_Witness ==
    \E c \in Calls :
        /\ IsSingle(c) /\ pc[c] = "thrown" /\ Rejected(c) # {}
        /\ rmCount[c] = 1 /\ dir[c] # Null /\ ~DirExists(c)

\* C2: once a call has created its scratch directory, no exit path of the
\* call leaves the directory behind (a failing rm aside), the path where
\* writeFile fails included.
C2_NoExitPathLeavesDir ==
    \A c \in Calls :
        Completed(c) /\ dir[c] # Null /\ ~rmFailed[c] => ~DirExists(c)

\* C3: a call of executeStepsMultiDevice runs rm on the shared scratch
\* directory at most once, exactly once when it has completed after its
\* fan-out, and never while one of its device invocations is unsettled.
C3_DeleteOnceAfterAllSettled ==
    \A c \in Calls :
        IsMulti(c) =>
            /\ rmCount[c] <= 1
            /\ Completed(c) /\ pc[c] = "returned" => rmCount[c] = 1
            /\ rmCount[c] >= 1 => InFlight(c) = {}

\* C4: a call of executeStepsMultiDevice has returned or thrown only when
\* every device invocation it launched has settled.
C4_JoinNotRace ==
    \A c \in Calls : IsMulti(c) /\ Completed(c) => InFlight(c) = {}

\* Pairwise distinct ordinary ids.
DistinctOrdinary(deviceIds) ==
    /\ ProtoKey \notin Range(deviceIds)
    /\ \A i, j \in DOMAIN deviceIds : deviceIds[i] = deviceIds[j] => i = j

\* C5: when a call of executeStepsMultiDevice (on pairwise distinct ordinary
\* ids) has completed, the result of every device invocation that resolved
\* is recorded under its device id, whatever happened to the invocations of
\* the other devices.
C5_ResultsNotHidden ==
    \A c \in Calls :
        IsMulti(c) /\ Completed(c) /\ DistinctOrdinary(ids[c]) =>
            \A i \in Resolved(c) :
                /\ ids[c][i] \in DOMAIN results[c]
                /\ results[c][ids[c][i]] = inv[c][i].result

\* C6: the mapping a call of executeStepsMultiDevice returns has the set of
\* supplied ids as its key set and as many entries as ids were supplied.
C6_OneEntryPerInputId ==
    \A c \in Calls :
        IsMulti(c) /\ pc[c] = "returned" =>
            /\ DOMAIN results[c] = Range(ids[c])
            /\ Cardinality(DOMAIN results[c]) = Len(ids[c])

\* C7: no device invocation of a call is launched while another one of the
\* same call is still waiting to be launched: as soon as one is launched all
\* are, so no launch waits for the completion of another invocation.
C7_AllLaunchedTogether ==
    \A c \in Calls : Launched(c) # {} => Launched(c) = Slots(c)

\* Every invocation of a call on two or more devices is in flight at once.
C7_Witness ==
    \E c \in Calls :
        /\ IsMulti(c) /\ Len(ids[c]) >= 2
        /\ InFlight(c) = Slots(c)

\* C11: no call of executeSteps or executeStepsMultiDevice ever ends by
\* throwing to its caller (rejecting its promise): every call that ends,
\* ends by returning a value.
C11_NoFaultEscapes == \A c \in Calls : pc[c] # "thrown"

\* What the call returns when its try block completes normally: the result
\* of its one runFlow (line 222), or the mapping built from the entries of
\* all its runFlows (lines 242-251).
TryValue(c) ==
    IF IsSingle(c)
    THEN [result |-> inv[c][1].result, results |-> <<>>]
    ELSE [result |-> NoResult, results |-> BuildResults(Entries(c))]

\* C12: when a call has finished after running rm on its scratch directory,
\* whether that rm succeeded or failed, the call has returned exactly when
\* none of its runFlow promises rejected (a failed rm raises nothing and
\* turns no return into a throw), and the value it returned is the one its
\* runFlow results determine, the same as with a successful rm.
C12_CleanupFailureChangesNothing ==
    \A c \in Calls :
        Completed(c) /\ rmCount[c] >= 1 =>
            /\ pc[c] = "returned" <=> Rejected(c) = {}
            /\ pc[c] = "returned" =>
                  /\ result[c] = TryValue(c).result
                  /\ results[c] = TryValue(c).results

\* A call of executeSteps whose rm failed has returned the exit code 0
\* result of its engine process, its directory still on disk.
C12_Witness ==
    \E c \in Calls :
        /\ IsSingle(c) /\ pc[c] = "returned"
        /\ rmFailed[c] /\ DirExists(c)
        /\ result[c].exitCode = 0

\* The call has passed the runFlow calls of its try block.
PastLaunch(c) ==
    \/ pc[c] \in {"await", "finally"}
    \/ Completed(c) /\ rmCount[c] >= 1

\* C13: for every device slot of every call the engine is launched at most
\* once, whatever became of the process launched (exit code, signal, error
\* event, failed spawn), and exactly once as soon as the call has passed its
\* runFlow calls: executeSteps launches once, executeStepsMultiDevice once
\* per element of deviceIds.
C13_LaunchedExactlyOnce ==
    \A c \in Calls :
        \A i \in Slots(c) :
            /\ inv[c][i].launches <= 1
            /\ inv[c][i].launches = 0 <=> inv[c][i].status = "idle"
            /\ PastLaunch(c) => inv[c][i].launches = 1

\* A call on two devices has finished with one engine process failed
\* (non-zero exit code) and one spawn failed; each was launched once.
C13_Witness ==
    \E c \in Calls :
        /\ IsMulti(c) /\ Completed(c) /\ Len(ids[c]) = 2
        /\ \E i, j \in Slots(c) :
              /\ inv[c][i].status = "resolved"
              /\ inv[c][i].result.exitCode # 0
              /\ inv[c][j].status = "rejected"
              /\ inv[c][i].launches = 1 /\ inv[c][j].launches = 1

\* C14: two calls never have the same scratch directory (hence never the
\* same flow.yaml), and the directory of a call stays on disk until the
\* call's own rm: the cleanup of one call never deletes the directory
\* another call is using.
C14_OwnScratchDirectory ==
    /\ \A c1, c2 \in Calls :
          c1 # c2 /\ dir[c1] # Null /\ dir[c2] # Null => dir[c1] # dir[c2]
    /\ \A c \in Calls : dir[c] # Null /\ rmCount[c] = 0 => DirExists(c)

\* One call has deleted its directory while the engine process of another
\* call is running on that call's own directory and document.
C14_Witness ==
    \E c1, c2 \in Calls :
        /\ c1 # c2
        /\ Completed(c1) /\ rmCount[c1] = 1 /\ dir[c1] # Null /\ ~DirExists(c1)
        /\ InFlight(c2) # {} /\ DirExists(c2) /\ dir[c2][1] \in flowFiles

(***************************************************************************)
(* Properties of the process runner (specification SpecRunner).            *)
(***************************************************************************)
\* C8: neither exec nor execStream ever rejects.
C8_RunnerNeverRejects == eStatus # "rejected" /\ sStatus # "rejected"

\* C9: exec and execStream deliver exitCode 0 only when the process exited
\* with code 0 and no timeout had expired.
C9_ZeroOnlyOnCleanExit ==
    /\ eResult.exitCode = 0 =>
          eFate = Some([how |-> "exit", code |-> 0]) /\ ~eTimedOut
    /\ sResult.exitCode = 0 => sClose = Some(0) /\ ~sTimedOut

\* The result the error handler builds from the error event delivered.
ErrorEventResult ==
    ExecResult(sError[1].stdout, sError[1].stderr \o <<NL, sError[1].msg>>, 1)

\* C10 as stated: once the child has reported an error, the result has
\* exitCode 1 and the stderr accumulated up to the error followed by the
\* message, whether a close event came before, after or not at all.
C10_ErrorResultAnyOrder ==
    sError # Null =>
        /\ sResult.exitCode = 1
        /\ sResult.stderr = ErrorEventResult.stderr

\* C10 amended: if the error event is delivered before any close event, the
\* result is exitCode 1 with the stderr accumulated up to the error, a
\* newline and the message, whether or not a close event follows; if the
\* close event came first, the result is the one of the close event.
C10_ErrorResultWhenFirst ==
    /\ sFirst = "error" => sStatus = "resolved" /\ sResult = ErrorEventResult
    /\ sFirst = "close" =>
          /\ sResult.exitCode = Coalesce(sClose, 1)
          /\ sError # Null => sResult.stderr # ErrorEventResult.stderr

\* An error arrived first, after some stderr output, and a close followed.
C10_Witness ==
    /\ sFirst = "error" /\ sClosed
    /\ sError[1].stderr # <<>>
    /\ sResult.exitCode = 1

\* C27: the result of an execStream call is the one built by the handler
\* of the first close or error event; once the promise has resolved, no
\* later step (a close after an error, an error after a close, a further
\* stdout or stderr chunk) changes the value delivered or delivers another.
C27_ResultFixedByFirstEvent ==
    /\ [](sFirst = "close" =>
            sResult = StreamCloseResult(sStdout, sStderr, sClose))
    /\ [](sFirst = "error" => sResult = ErrorEventResult)
    /\ [][sStatus = "resolved" =>
            sStatus' = "resolved" /\ sResult' = sResult]_vars

\* The error event came first; a stdout chunk and then the close event
\* arrived after it, and the result is still the one of the error event.
C27_Witness ==
    /\ sFirst = "error" /\ sClosed
    /\ Len(sStdout) > Len(sResult.stdout)
    /\ sResult = ErrorEventResult

(***************************************************************************)
(* Properties of the flow document builder (specification SpecYaml).       *)
(***************************************************************************)
Called(f) == yCall = f /\ yDone

\* The header line for application id A and the separator line, each with
\* its newline.
DocumentPrefix(A) == <<"appId", ":", SP>> \o A \o <<NL, "-", "-", "-", NL>>

\* The rendering of each step in input order, each followed by a newline.
StepBlocks(S) == Concat([k \in DOMAIN S |-> FormatStep(S[k]) \o <<NL>>])

\* C15: for every application id A and step sequence S the document starts
\* with the line appId: A and the line ---, and what follows is the
\* rendering of step 1, then of step 2, ... then of step len(S), each block
\* once and in input order, and nothing else.
C15_HeaderThenStepsInOrder ==
    Called("buildYaml") =>
        /\ StartsWith(yOut, DocumentPrefix(yAppId))
        /\ yOut = DocumentPrefix(yAppId) \o StepBlocks(ySteps)

\* A document of two different steps, the first a multi-line object block.
C15_Witness ==
    /\ Called("buildYaml") /\ Len(ySteps) = 2
    /\ ySteps[1] # ySteps[2]
    /\ ySteps[1].params.t = "object" /\ ySteps[1].params.e # <<>>
    /\ ySteps[2].params.t = "string"
    /\ yOut = DocumentPrefix(yAppId) \o FormatStep(ySteps[1]) \o <<NL>>
                \o FormatStep(ySteps[2]) \o <<NL>>

IsScalar(v) == v.t \in {"string", "number", "boolean"}
IsAbsent(v) == v.t \in {"undefined", "null"}

\* C16: a step whose params is a string, a number or a boolean is rendered
\* as the one line "- command: value" (no newline inside it), for every
\* string; and a document whose steps all have scalar or absent params has
\* exactly 2 + len(S) lines, each ended by its newline.
C16_ScalarStepIsOneLine ==
    /\ Called("formatStep") /\ IsScalar(ySteps[1].params) =>
          /\ yOut = <<"-", SP>> \o ySteps[1].command \o <<":", SP>>
                        \o FormatValue(ySteps[1].params)
          /\ CountOf(yOut, NL) = 0
    /\ Called("buildYaml")
            /\ (\A k \in DOMAIN ySteps :
                    IsScalar(ySteps[k].params) \/ IsAbsent(ySteps[k].params)) =>
          CountOf(yOut, NL) = 2 + Len(ySteps)

\* The lines C17 describes for a step whose params is a mapping: the line
\* "- command:", then per entry in iteration order either the 6-space line
\* "key: value", or for a value that is a mapping the 6-space line "key:"
\* and one 8-space line "key: value" per nested entry.
BlockLines(step) ==
    <<<<"-", SP>> \o step.command \o <<":">>>>
        \o Concat([i \in DOMAIN step.params.e |->
             LET k == step.params.e[i][1]
                 v == step.params.e[i][2]
             IN  IF v.t = "object"
                 THEN <<Indent(6) \o k \o <<":">>>>
                         \o [j \in DOMAIN v.e |->
                               Indent(8) \o v.e[j][1] \o <<":", SP>>
                                   \o FormatValue(v.e[j][2])]
                 ELSE <<Indent(6) \o k \o <<":", SP>> \o FormatValue(v)>>])

\* C17: the rendering of a step whose params is a non-array mapping (its
\* values scalars, null or mappings) consists of exactly the lines of
\* BlockLines, in that order.
C17_ObjectBlockLines ==
    Called("formatStep") /\ ySteps[1].params.t = "object"
        /\ (\A i \in DOMAIN ySteps[1].params.e :
                ySteps[1].params.e[i][2].t # "array") =>
        LinesOf(yOut) = BlockLines(ySteps[1])

\* C18: a step whose params is an array is rendered as the single line
\* "- command: " followed by the compact JSON of the array, never as an
\* object block; [1,2,3] gives "- custom: [1,2,3]" and the empty array
\* "- custom: []".
C18_ArrayStepIsJson ==
    /\ Called("formatStep") /\ ySteps[1].params.t = "array" =>
          /\ yOut = <<"-", SP>> \o ySteps[1].command \o <<":", SP>>
                        \o JsonStringify(ySteps[1].params)
          /\ CountOf(yOut, NL) = 0
          /\ yOut[Len(yOut)] = "]"
    /\ FormatStep(FlowStep(<<"custom">>, ArrV(<<NumV(1), NumV(2), NumV(3)>>)))
          = <<"-", SP, "custom", ":", SP, "[", "1", ",", "2", ",", "3", "]">>
    /\ FormatStep(FlowStep(<<"custom">>, ArrV(<<>>)))
          = <<"-", SP, "custom", ":", SP, "[", "]">>

\* An array of two items, one a string holding a quote, rendered on one
\* line.
C18_Witness ==
    /\ Called("formatStep")
    /\ ySteps[1].params = ArrV(<<NumV(1), StrV(<<"a", DQ>>)>>)
    /\ yOut = <<"-", SP, "tapOn", ":", SP,
                "[", "1", ",", DQ, "a", BS, DQ, DQ, "]">>

\* Every backslash doubled, every double quote prefixed with one backslash,
\* every other character kept, character by character.
CharwiseEscape(s) ==
    Concat([i \in DOMAIN s |->
              CASE s[i] = BS -> <<BS, BS>>
                [] s[i] = DQ -> <<BS, DQ>>
                [] OTHER -> <<s[i]>>])

\* C19: escapeYaml(s) is s with every backslash doubled and every double
\* quote prefixed with one backslash that is itself not doubled; a string
\* without backslash and quote is returned unchanged; a, backslash, quote, b
\* gives a, three backslashes, quote, b.
C19_SequentialEscape ==
    /\ Called("escapeYaml") =>
          /\ yOut = CharwiseEscape(yStr)
          /\ BS \notin Range(yStr) /\ DQ \notin Range(yStr) => yOut = yStr
    /\ EscapeYaml(<<"a", BS, DQ, "b">>) = <<"a", BS, BS, BS, DQ, "b">>

\* escapeYaml has returned a, three backslashes, quote for a, backslash,
\* quote.
C19_Witness ==
    /\ Called("escapeYaml")
    /\ yStr = <<"a", BS, DQ>>
    /\ yOut = <<"a", BS, BS, BS, DQ>>

\* C20: the document ends with exactly one newline: its last character is
\* a newline and the one before it is not.
C20_SingleTrailingNewline ==
    Called("buildYaml") =>
        /\ Len(yOut) >= 2
        /\ yOut[Len(yOut)] = NL
        /\ yOut[Len(yOut) - 1] # NL

\* C21: buildYaml and formatStep never throw: for every action and every
\* params value, of every shape, the call returns a text.
C21_BuilderNeverThrows == ~yThrew

\* C28: inside an object block every entry whose value is not a mapping (a
\* string, a number, a boolean, null or an array) is rendered as the one
\* 6-space line "key: value" with the value in scalar formatting, an array
\* as its compact JSON; no such entry opens a second indentation level.
C28_NonMappingEntryOneLine ==
    Called("formatStep") /\ ySteps[1].params.t = "object" =>
        \A i \in DOMAIN ySteps[1].params.e :
            LET k == ySteps[1].params.e[i][1]
                v == ySteps[1].params.e[i][2]
            IN  v.t # "object" =>
                    /\ FormatEntry(k, v)
                          = Indent(6) \o k \o <<":", SP>> \o
                              (IF v.t = "array" THEN JsonStringify(v)
                                                ELSE FormatValue(v))
                    /\ CountOf(FormatEntry(k, v), NL) = 0

\* Reading an escaped text back, left to right: backslash backslash is a
\* backslash, backslash quote is a quote, any other character is itself.
RECURSIVE Unescape(_)
Unescape(t) ==
    IF t = <<>> THEN <<>>
    ELSE IF Head(t) = BS /\ Len(t) >= 2 /\ t[2] \in {BS, DQ}
         THEN <<t[2]>> \o Unescape(Tail(Tail(t)))
         ELSE <<Head(t)>> \o Unescape(Tail(t))

\* The number of consecutive backslashes that end just before position i.
RECURSIVE BackslashesBefore(_, _)
BackslashesBefore(t, i) ==
    IF i > 1 /\ t[i - 1] = BS THEN 1 + BackslashesBefore(t, i - 1) ELSE 0

\* C30: undoing the escape on escapeYaml(s) gives back s; no other string
\* has the same escaped form; and every double quote of escapeYaml(s) is
\* preceded by an odd number of consecutive backslashes.
C30_EscapeIsLossless ==
    Called("escapeYaml") =>
        /\ Unescape(yOut) = yStr
        /\ \A t \in Strings : EscapeYaml(t) = yOut => t = yStr
        /\ \A i \in DOMAIN yOut :
              yOut[i] = DQ => BackslashesBefore(yOut, i) % 2 = 1

\* escapeYaml has escaped backslash, quote, quote: the text read back is
\* the argument, and both quotes are behind an odd run of backslashes.
C30_Witness ==
    /\ Called("escapeYaml")
    /\ yStr = <<BS, DQ, DQ>>
    /\ yOut = <<BS, BS, BS, DQ, BS, DQ>>
    /\ Unescape(yOut) = yStr

(***************************************************************************)
(* Properties of the client operations and tool handlers (specification    *)
(* SpecClient).                                                            *)
(***************************************************************************)
\* C22: runFlow starts the engine with exactly the arguments --device, id,
\* test, path for every device id that was supplied, and with test, path
\* when none was.
C22_ArgsForEverySuppliedId ==
    kCall = "runFlow" /\ kSpawned # <<>> =>
        /\ kSpawned[1].cmd = "maestro"
        /\ kIn.deviceId # Null =>
              kSpawned[1].args = <<<<"--device">>, kIn.deviceId[1], <<"test">>, kIn.flowPath>>
        /\ kIn.deviceId = Null => kSpawned[1].args = <<<<"test">>, kIn.flowPath>>

\* C23: the path takeScreenshot returns is the outputPath it was given; when
\* it was given none, the path lies inside the scratch directory the call
\* created, and that directory still exists when the call returns, whatever
\* the exit code.
C23_ScreenshotPath ==
    kCall = "takeScreenshot" /\ kPc = "returned" =>
        /\ kIn.outputPath # Null => kOut.path = kIn.outputPath[1]
        /\ kIn.outputPath = Null =>
              /\ kDir # Null
              /\ kFsOps[1] = "mkdtemp"
              /\ StartsWith(kOut.path, kDir[1] \o <<"/">>)
              /\ Len(kOut.path) > Len(kDir[1]) + 1
              /\ kDir[1] \in kDirs

C23_Witness ==
    /\ kCall = "takeScreenshot" /\ kPc = "returned" /\ kShots = 2
    /\ kIn.outputPath = Null
    /\ kOut.exitCode = 1
    /\ kOut.path = JoinPath(kDir[1], "screenshot.png")
    /\ kDir[1] \in kDirs

\* C29: a takeScreenshot call that was given an explicit outputPath leaves
\* no scratch directory behind.
C29_NoScratchDirWithExplicitPath ==
    kCall = "takeScreenshot" /\ kPc = "returned" /\ kIn.outputPath # Null =>
        kDir[1] \notin kDirs

\* A command of listDevices failed: it could not be started, or ended with
\* a non-zero exit code.
ExecFailed(p) == p.status = "rejected" \/ p.exitCode # 0

\* C24: listDevices never throws and returns both lists; the list of a
\* command that failed is empty, and each list is made of its own
\* command's output only, whichever command completes first.
C24_BothListsAlways ==
    kCall = "listDevices" =>
        /\ kPc # "thrown"
        /\ kPc = "returned" =>
              /\ kOut.android =
                    IF ExecFailed(kExec.android) THEN <<>>
                    ELSE AndroidEntries(Tail(LinesOf(kExec.android.stdout.text)))
              /\ kOut.ios =
                    IF ExecFailed(kExec.ios) THEN <<>>
                    ELSE IosParse(kExec.ios.stdout).list

C24_Witness ==
    /\ kCall = "listDevices" /\ kPc = "returned"
    /\ kExec.ios.seq = 1 /\ kExec.android.seq = 2
    /\ kExec.android.exitCode = 1 /\ kExec.android.stdout.text # <<>>
    /\ kOut.android = <<>>
    /\ Len(kOut.ios) = 2

\* The simulators of a well-formed document, runtime by runtime.
Simulators(stdout) ==
    LET d == GetProp(stdout.data, <<"devices">>)
        devices == IF Falsy(d) THEN ObjV(<<>>) ELSE d
        keys == ObjectKeys(devices)
    IN  Concat([i \in DOMAIN keys |-> Items(GetProp(devices, keys[i]))])

NotUnavailable(device) == GetProp(device, <<"isAvailable">>) # BoolV(FALSE)

\* C25: when the iOS command succeeded but processing its output fails at
\* any point, the iOS list is empty; when processing succeeds, the list
\* holds exactly the simulators whose isAvailable is not explicitly false.
C25_MalformedIosGivesEmptyList ==
    /\ kCall = "listDevices" /\ kPc = "returned"
    /\ kExec.ios.status = "resolved" /\ kExec.ios.exitCode = 0
    => IF IosParse(kExec.ios.stdout).threw
       THEN kOut.ios = <<>>
       ELSE LET shown == SelectSeq(Simulators(kExec.ios.stdout), NotUnavailable)
            IN  /\ Len(kOut.ios) = Len(shown)
                /\ \A i \in DOMAIN shown : kOut.ios[i].id = GetProp(shown[i], <<"udid">>)

\* The request is a swipe with neither a direction nor both points, or a
\* run_flow with neither content nor a file path.
InvalidRequest ==
    \/ kCall = "swipe" /\ kIn.direction = Null /\ (kIn.start = Null \/ kIn.end = Null)
    \/ kCall = "run_flow" /\ kIn.yamlContent = Null /\ kIn.filePath = Null

\* C26: an invalid swipe or run_flow request is answered with a failure
\* payload (isError set, a message), and no scratch file is created and no
\* process launched for it.
C26_InvalidInputFailsWithoutEffects ==
    InvalidRequest =>
        /\ kPc = "returned"
        /\ kOut.isError
        /\ kOut.message # <<>>
        /\ kFsOps = <<>>
        /\ kSpawned = <<>>
        /\ kDir = Null /\ kDirs = {}

C26_Witness ==
    /\ kCall = "swipe" /\ kPc = "returned"
    /\ kIn.direction = Null /\ kIn.start # Null /\ kIn.end = Null
    /\ kOut.isError
    /\ kOut.message = <<"Provide either 'direction' or both 'start' and 'end' points.">>
    /\ kFsOps = <<>> /\ kSpawned = <<>>
=============================================================================
